---- MODULE Spec2Model ----
(***************************************************************************)
(* Round lifecycle and settlement engine of the colour trading game        *)
(* (server/routes.ts, server/storage.ts, shared/schema.ts).                *)
(*                                                                         *)
(* Every `await` of the source is a point where other callbacks of the     *)
(* Node.js event loop may run, so every storage call is one atomic step    *)
(* and the synchronous code around it belongs to the step that resumes it. *)
(* Money is kept in cents (decimal(10,2) columns); a product with a        *)
(* multiplier is kept in 1/10000 units until the column rounds it.         *)
(***************************************************************************)
EXTENDS Integers, Sequences, FiniteSets, TLC

\* ------------------------------------------------------------------ bounds
MaxTicks == 2
MaxInFlight == 2
MaxRequests == 2
MaxFailures == 1

\* ------------------------------------------------------- program constants
\* users.balance default "50.00", in cents
DefaultBalance == 5000
\* private currentSequence: number = 867
DefaultSequence == 867
\* private basePeriodNumber: string = "127927270", one character per element
basePeriodNumber == <<"1", "2", "7", "9", "2", "7", "2", "7", "0">>
\* multipliers of processRoundResult, times 100
ColorMultiplier == 195
VioletMultiplier == 450
NumberMultiplier == 900

\* ------------------------------------------------------------ input domains
\* rows of the users table (ids 1 and 2); id 3 is asked for and has no row
Users == {1, 2}
\* amounts a request body can carry (cents)
Amounts == {3000, -6000}
\* the numbers Math.floor(Math.random() * 10) is drawn from in this model
DrawnNumbers == {0}

\* request bodies: amountType is the JSON type of the amount field (the
\* client sends amount.toString(); a JSON number is what the schema refuses)
Bodies ==
    [userId : {1}, betType : {"color"}, betValue : {"red"},
     amount : Amounts, amountType : {"string"}]
    \cup [userId : {3}, betType : {"color"}, betValue : {"red"},
          amount : {3000}, amountType : {"string"}]
    \cup [userId : {1}, betType : {"color"}, betValue : {"red"},
          amount : {3000}, amountType : {"number"}]

\* ------------------------------------------------------------- pure helpers
Digits == <<"0", "1", "2", "3", "4", "5", "6", "7", "8", "9">>

\* Number.prototype.toString for a non-negative integer, as characters
RECURSIVE toString(_)
toString(n) ==
    IF n < 10 THEN <<Digits[n + 1]>>
    ELSE toString(n \div 10) \o <<Digits[(n % 10) + 1]>>

\* String.prototype.padStart(width, '0')
RECURSIVE padStart(_, _)
padStart(s, width) ==
    IF Len(s) >= width THEN s ELSE padStart(<<"0">> \o s, width)

\* String.prototype.slice(-3)
sliceLast3(s) ==
    IF Len(s) <= 3 THEN s ELSE SubSeq(s, Len(s) - 2, Len(s))

DigitValue(c) == CHOOSE d \in 0..9 : Digits[d + 1] = c

\* parseInt of a string of decimal digits
RECURSIVE parseInt(_)
parseInt(s) ==
    IF Len(s) = 0 THEN 0
    ELSE 10 * parseInt(SubSeq(s, 1, Len(s) - 1)) + DigitValue(s[Len(s)])

\* parseInt(bet.betValue) for the bet values of the model
parseBetValue(v) ==
    IF v \in {Digits[k] : k \in 1..10} THEN DigitValue(v) ELSE -1

\* faulty variant: the counter never goes back to 0
nextSequence_NoWrap(seq) ==
    seq + 1

\* faulty variant: the counter goes back to 0 one call early
nextSequence_WrapEarly(seq) ==
    IF seq + 1 >= 999 THEN 0 ELSE seq + 1

\* generatePeriodNumber: the counter after the call
nextSequence(seq) ==
    IF seq + 1 > 999 THEN 0 ELSE seq + 1

\* generatePeriodNumber: the label returned for the counter after the call
periodLabel(seq) ==
    basePeriodNumber \o padStart(toString(seq), 3)

\* faulty variant: 5 treated like 0
generateResult_FiveAsZero(number, coin) ==
    [color |-> IF number \in {0, 5} THEN (IF coin THEN "red" ELSE "violet")
               ELSE IF number \in {1, 3, 7, 9} THEN "green"
               ELSE "red",
     number |-> number]

\* generateResult, for the number drawn and the outcome of Math.random() < 0.5
generateResult(number, coin) ==
    [color |-> IF number = 0 THEN (IF coin THEN "red" ELSE "violet")
               ELSE IF number = 5 THEN (IF coin THEN "green" ELSE "violet")
               ELSE IF number \in {1, 3, 7, 9} THEN "green"
               ELSE "red",
     number |-> number]

\* a decimal(10,2) column rounds what it is given (in 1/10000) to cents,
\* half away from zero
Round2(x) ==
    IF x >= 0 THEN (x + 50) \div 100 ELSE -((-x + 50) \div 100)

\* where the double computed for the exact value x (in 1/10000) can lie: at
\* a half cent it may fall short of x, as 1.9 * 1.95 does (3.7049999999999996)
TieSides(x) ==
    IF x % 100 = 50 THEN {"below", "exact"} ELSE {"exact"}

\* Number.prototype.toString of that double, as the column will read it
doubleString(x, side) ==
    IF side = "exact" THEN x
    ELSE IF x >= 0 THEN x - 1 ELSE x + 1

\* faulty variant: only color bets can win
betWon_ColorOnly(bet, result) ==
    IF bet.betType = "color" THEN bet.betValue = result.color
    ELSE FALSE

\* processRoundResult: won
betWon(bet, result) ==
    IF bet.betType = "color" THEN bet.betValue = result.color
    ELSE IF bet.betType = "number" THEN parseBetValue(bet.betValue) = result.number
    ELSE FALSE

\* faulty variant: a winning violet bet paid like red or green
betMultiplier_NoViolet(bet, result) ==
    IF bet.betType = "color" /\ bet.betValue = result.color
        THEN ColorMultiplier
    ELSE IF bet.betType = "number" /\ parseBetValue(bet.betValue) = result.number
        THEN NumberMultiplier
    ELSE 0

\* processRoundResult: multiplier (times 100) of a bet
betMultiplier(bet, result) ==
    IF bet.betType = "color" /\ bet.betValue = result.color
        THEN (IF result.color = "violet" THEN VioletMultiplier ELSE ColorMultiplier)
    ELSE IF bet.betType = "number" /\ parseBetValue(bet.betValue) = result.number
        THEN NumberMultiplier
    ELSE 0

\* faulty variant: a losing bet gets its stake back as payout
betPayout_Refund(bet, result) ==
    IF betWon(bet, result) THEN bet.amount * betMultiplier(bet, result)
    ELSE bet.amount * 100

\* processRoundResult: payout, in 1/10000, as the string handed to storage
betPayout(bet, result) ==
    IF betWon(bet, result) THEN bet.amount * betMultiplier(bet, result) ELSE 0

\* insertBetSchema.parse: userId an integer, the three others strings
insertBetSchemaOk(body) ==
    /\ body.userId \in Int
    /\ body.amountType = "string"

\* route: !currentRound, for the row list getCurrentRound resolved to
noActiveRound(currentRound) ==
    Len(currentRound) = 0

\* faulty variant: the !user check left out
userNotFound_Missing(user) ==
    FALSE

\* route: !user, for the row list getUser resolved to
userNotFound(user) ==
    Len(user) = 0

\* faulty variant: the comparison turned around
insufficientBalance_Reversed(userBalance, betAmount) ==
    betAmount < userBalance

\* route: userBalance < betAmount
insufficientBalance(userBalance, betAmount) ==
    userBalance < betAmount

\* faulty variant: the amount added instead of deducted
balanceAfterBet_Added(userBalance, betAmount) ==
    userBalance + betAmount

\* route: (userBalance - betAmount).toString(), as the column stores it
balanceAfterBet(userBalance, betAmount) ==
    userBalance - betAmount

\* createBet: the row inserted, with the column defaults of the bets table
newBetRow(id, body, roundId) ==
    [id |-> id, userId |-> body.userId, roundId |-> roundId,
     betType |-> body.betType, betValue |-> body.betValue,
     amount |-> body.amount, payout |-> 0, status |-> "pending"]

\* createGameRound: the row inserted (id is the serial key)
newRoundRow(id, label, result) ==
    [id |-> id, periodNumber |-> label, result |-> result.color, number |-> result.number]

\* what the game_rounds table can hold when the process starts: nothing, or
\* the round an earlier run of the process created first
PersistedRounds ==
    {<<>>, <<newRoundRow(1, periodLabel(nextSequence(DefaultSequence)),
                         generateResult(0, TRUE))>>}

\* ------------------------------------------------------------------- state
VARIABLES
    users,            \* users table: id -> balance
    rounds,           \* game_rounds table in creation order
    bets,             \* bets table in creation order
    currentSequence,  \* LiveGameEngine.currentSequence
    currentRoundId,   \* LiveGameEngine.currentRoundId (0: null)
    intervalId,       \* LiveGameEngine.intervalId is set
    enginePc,         \* "initializeSequence" until startGameLoop has run
    ticks,            \* the createNewRound executions, by start order
    started,          \* how many createNewRound executions have started
    reqs,             \* the POST /api/game/bet requests
    failures,         \* storage calls that have thrown
    betWrites,        \* history: updateBetResult calls per bet
    betCredits,       \* history: settlement credits per bet
    overlap,          \* history: a tick started while another was in flight
    wsServer,         \* LiveGameEngine.wsServer: whether set, and its clients
    stopped           \* history: stopGameLoop has been called

vars == <<users, rounds, bets, currentSequence, currentRoundId, intervalId,
          enginePc, ticks, started, reqs, failures, betWrites, betCredits, overlap,
          wsServer, stopped>>

NoResult == [color |-> "none", number |-> -1]

IdleTick ==
    [pc |-> "idle", periodNumber |-> <<>>, result |-> NoResult, roundId |-> 0,
     prevId |-> 0, prevResult |-> NoResult, bets |-> <<>>, i |-> 0,
     balance |-> 0, outcome |-> "none", broadcast |-> "none"]

\* wsServer before setWebSocketServer is called
NoServer == [set |-> FALSE, clients |-> <<>>]

IdleReq ==
    [pc |-> "idle", body |-> [userId |-> 0, betType |-> "", betValue |-> "", amount |-> 0,
              amountType |-> ""],
     roundId |-> 0, balance |-> 0, betId |-> 0, wrote |-> FALSE,
     response |-> "none", startBalance |-> 0, peers |-> {}]

\* faulty variant: oldest first
getRecentRounds_OldestFirst(limit) ==
    [k \in 1..(IF Len(rounds) < limit THEN Len(rounds) ELSE limit) |-> rounds[k]]

\* storage.getRecentRounds(limit): most recent first
getRecentRounds(limit) ==
    [k \in 1..(IF Len(rounds) < limit THEN Len(rounds) ELSE limit) |->
        rounds[Len(rounds) + 1 - k]]

\* storage.getCurrentRound(): the most recent round, or <<>> for undefined
getCurrentRound ==
    IF Len(rounds) = 0 THEN <<>> ELSE <<rounds[Len(rounds)]>>

\* storage.getUser(id): the row, or <<>> for undefined
getUser(id) ==
    IF id \in DOMAIN users THEN <<[id |-> id, balance |-> users[id]]>> ELSE <<>>

\* faulty variant: every bet, whatever its round
getBetsByRoundId_AnyRound(roundId) ==
    bets

\* storage.getBetsByRoundId(roundId)
getBetsByRoundId(roundId) ==
    SelectSeq(bets, LAMBDA b : b.roundId = roundId)

\* the createNewRound executions and the requests that are between two awaits
InFlight == {t \in 1..MaxTicks : ticks[t].pc \notin {"idle", "done"}}
ReqsInFlight == {r \in 1..MaxRequests : reqs[r].pc \notin {"idle", "done"}}
\* the model runs at most MaxInFlight handlers at a time
RoomForOne == Cardinality(InFlight) + Cardinality(ReqsInFlight) < MaxInFlight

Init ==
    /\ users = [u \in Users |-> DefaultBalance]
    /\ rounds \in PersistedRounds
    /\ bets = <<>>
    /\ currentSequence = DefaultSequence
    /\ currentRoundId = 0
    /\ intervalId = FALSE
    /\ enginePc = "initializeSequence"
    /\ ticks = [t \in 1..MaxTicks |-> IdleTick]
    /\ started = 0
    /\ reqs = [r \in 1..MaxRequests |-> IdleReq]
    /\ failures = 0
    /\ betWrites = <<>>
    /\ betCredits = <<>>
    /\ overlap = FALSE
    /\ wsServer = NoServer
    /\ stopped = FALSE

\* ------------------------------------------------------------------ engine
\* createNewRound up to its first await: generatePeriodNumber, generateResult
\* and the call of storage.createGameRound
BeginCreateNewRound(seq, number, coin) ==
    /\ started < MaxTicks
    /\ RoomForOne
    /\ started' = started + 1
    /\ currentSequence' = nextSequence(seq)
    /\ ticks' = [ticks EXCEPT ![started + 1] =
                    [IdleTick EXCEPT !.pc = "createGameRound",
                                     !.periodNumber = periodLabel(nextSequence(seq)),
                                     !.result = generateResult(number, coin)]]
    /\ overlap' = (overlap \/ InFlight # {})

\* initializeSequence resumed after storage.getRecentRounds(1), which either
\* returned or threw; then startGameLoop. numbers is the range of the draw
InitializeSequenceOn(numbers) ==
    /\ enginePc = "initializeSequence"
    /\ \E failed \in BOOLEAN, number \in numbers, coin \in BOOLEAN :
        /\ failed => failures < MaxFailures
        /\ failures' = IF failed THEN failures + 1 ELSE failures
        /\ LET recentRounds == getRecentRounds(1)
               seq == IF ~failed /\ Len(recentRounds) > 0
                        THEN parseInt(sliceLast3(recentRounds[1].periodNumber))
                        ELSE currentSequence
           IN  BeginCreateNewRound(seq, number, coin)
    /\ enginePc' = "running"
    /\ intervalId' = TRUE
    /\ UNCHANGED <<users, rounds, bets, currentRoundId, reqs, betWrites, betCredits,
                   wsServer, stopped>>

InitializeSequence ==
    InitializeSequenceOn(DrawnNumbers)

\* the setInterval callback; numbers is the range of the draw
IntervalFiresOn(numbers) ==
    /\ enginePc = "running"
    /\ intervalId
    /\ \E number \in numbers, coin \in BOOLEAN :
        BeginCreateNewRound(currentSequence, number, coin)
    /\ UNCHANGED <<users, rounds, bets, currentRoundId, intervalId, enginePc, reqs,
                   failures, betWrites, betCredits,
                   wsServer, stopped>>

IntervalFires ==
    IntervalFiresOn(DrawnNumbers)

\* ------------------------------------------------- createNewRound, resumed
\* a storage call may throw while fewer than MaxFailures have
CanFail == failures < MaxFailures

\* the periodNumber column is unique: the insert throws on a label in use
labelInUse(label) ==
    \E k \in 1..Len(rounds) : rounds[k].periodNumber = label

\* broadcastGameUpdate: how the forEach over the clients of server ends;
\* client.send either returns or throws, and a throw leaves the forEach
broadcastGameUpdate(server) ==
    IF ~server.set THEN "nothing to send"
    ELSE IF \E k \in 1..Len(server.clients) :
                server.clients[k].readyState = 1 /\ server.clients[k].sendThrows
        THEN "threw"
    ELSE "sent"

\* the promise of createNewRound settles: broadcastGameUpdate ran and
\* returned (resolved), or an exception left the function (rejected) before
\* the broadcast or out of it
endTick(tick, how) ==
    [tick EXCEPT !.pc = "done",
                 !.outcome = IF how = "resolved"
                                /\ broadcastGameUpdate(wsServer) = "threw"
                                THEN "rejected" ELSE how,
                 !.broadcast = IF how = "resolved"
                                  THEN broadcastGameUpdate(wsServer) ELSE "none",
                 !.bets = <<>>, !.i = 0, !.balance = 0]

\* the for loop of processRoundResult moves to the next bet, or the function
\* returns and createNewRound broadcasts
nextBet(tick) ==
    IF tick.i < Len(tick.bets)
        THEN [tick EXCEPT !.pc = "updateBetResult", !.i = tick.i + 1]
        ELSE endTick(tick, "resolved")

\* await storage.createGameRound(...) returns; this.currentRoundId = round.id;
\* storage.getRecentRounds(2) is called
CreateGameRound(t) ==
    /\ ticks[t].pc = "createGameRound"
    /\ ~labelInUse(ticks[t].periodNumber)
    /\ rounds' = Append(rounds, newRoundRow(Len(rounds) + 1, ticks[t].periodNumber,
                                            ticks[t].result))
    /\ currentRoundId' = Len(rounds) + 1
    /\ ticks' = [ticks EXCEPT ![t] = [@ EXCEPT !.pc = "getRecentRounds",
                                               !.roundId = Len(rounds) + 1]]
    /\ UNCHANGED <<users, bets, currentSequence, intervalId, enginePc, started, reqs,
                   failures, betWrites, betCredits, overlap,
                   wsServer, stopped>>

\* await storage.createGameRound(...) throws on a label in use: nothing in
\* createNewRound catches it
CreateGameRoundDuplicate(t) ==
    /\ ticks[t].pc = "createGameRound"
    /\ labelInUse(ticks[t].periodNumber)
    /\ ticks' = [ticks EXCEPT ![t] = endTick(@, "rejected")]
    /\ UNCHANGED <<users, rounds, bets, currentSequence, currentRoundId, intervalId,
                   enginePc, started, reqs, failures, betWrites, betCredits, overlap,
                   wsServer, stopped>>

\* await storage.getRecentRounds(2) returns; with a second round,
\* processRoundResult is entered and storage.getBetsByRoundId is called
GetRecentRounds(t) ==
    /\ ticks[t].pc = "getRecentRounds"
    /\ LET recentRounds == getRecentRounds(2)
       IN  ticks' = [ticks EXCEPT ![t] =
                IF Len(recentRounds) > 1
                    THEN [@ EXCEPT !.pc = "getBetsByRoundId",
                                   !.prevId = recentRounds[2].id,
                                   !.prevResult = [color |-> recentRounds[2].result,
                                                   number |-> recentRounds[2].number]]
                    ELSE endTick(@, "resolved")]
    /\ UNCHANGED <<users, rounds, bets, currentSequence, currentRoundId, intervalId,
                   enginePc, started, reqs, failures, betWrites, betCredits, overlap,
                   wsServer, stopped>>

\* await storage.getBetsByRoundId(roundId) returns; the loop starts
GetBetsByRoundId(t) ==
    /\ ticks[t].pc = "getBetsByRoundId"
    /\ ticks' = [ticks EXCEPT ![t] =
            nextBet([@ EXCEPT !.bets = getBetsByRoundId(ticks[t].prevId), !.i = 0])]
    /\ UNCHANGED <<users, rounds, bets, currentSequence, currentRoundId, intervalId,
                   enginePc, started, reqs, failures, betWrites, betCredits, overlap,
                   wsServer, stopped>>

\* faulty variant: the payout written grows with the bets settled before
updateBetResult_CountsSettled(betId, status, payout) ==
    [k \in 1..Len(bets) |->
        IF bets[k].id = betId
            THEN [bets[k] EXCEPT
                    !.status = status,
                    !.payout = Round2(payout)
                        + Cardinality({j \in 1..Len(bets) : bets[j].status # "pending"})]
            ELSE bets[k]]

\* storage.updateBetResult(betId, status, payout): the row with that id
updateBetResult(betId, status, payout) ==
    [k \in 1..Len(bets) |->
        IF bets[k].id = betId
            THEN [bets[k] EXCEPT !.status = status, !.payout = Round2(payout)]
            ELSE bets[k]]

\* await storage.updateBetResult(bet.id, status, payout) returns; a winner's
\* user is fetched next
UpdateBetResult(t) ==
    /\ ticks[t].pc = "updateBetResult"
    /\ LET bet == ticks[t].bets[ticks[t].i]
           won == betWon(bet, ticks[t].prevResult)
           payout == betPayout(bet, ticks[t].prevResult)
       IN  /\ \E side \in TieSides(payout) :
                bets' = updateBetResult(bet.id, IF won THEN "won" ELSE "lost",
                                        doubleString(payout, side))
           /\ betWrites' = [betWrites EXCEPT ![bet.id] = @ + 1]
           /\ ticks' = [ticks EXCEPT ![t] =
                    IF won THEN [@ EXCEPT !.pc = "getUser"] ELSE nextBet(@)]
    /\ UNCHANGED <<users, rounds, currentSequence, currentRoundId, intervalId,
                   enginePc, started, reqs, failures, betCredits, overlap,
                   wsServer, stopped>>

\* await storage.getUser(bet.userId) returns
SettleGetUser(t) ==
    /\ ticks[t].pc = "getUser"
    /\ LET user == getUser(ticks[t].bets[ticks[t].i].userId)
       IN  ticks' = [ticks EXCEPT ![t] =
                IF Len(user) > 0
                    THEN [@ EXCEPT !.pc = "updateUserBalance",
                                   !.balance = user[1].balance]
                    ELSE nextBet(@)]
    /\ UNCHANGED <<users, rounds, bets, currentSequence, currentRoundId, intervalId,
                   enginePc, started, reqs, failures, betWrites, betCredits, overlap,
                   wsServer, stopped>>

\* processRoundResult: (parseFloat(user.balance) + parseFloat(payout))
\* .toString(), as the balance column stores it
balanceAfterPayout(userBalance, payout, side) ==
    Round2(doubleString(userBalance * 100 + payout, side))

\* await storage.updateUserBalance(bet.userId, newBalance) returns
SettleUpdateUserBalance(t) ==
    /\ ticks[t].pc = "updateUserBalance"
    /\ LET bet == ticks[t].bets[ticks[t].i]
           payout == betPayout(bet, ticks[t].prevResult)
       IN  /\ \E side \in TieSides(ticks[t].balance * 100 + payout) :
                users' = [users EXCEPT ![bet.userId] =
                    balanceAfterPayout(ticks[t].balance, payout, side)]
           /\ betCredits' = [betCredits EXCEPT ![bet.id] = @ + 1]
    /\ ticks' = [ticks EXCEPT ![t] = nextBet(@)]
    /\ UNCHANGED <<rounds, bets, currentSequence, currentRoundId, intervalId,
                   enginePc, started, reqs, failures, betWrites, overlap,
                   wsServer, stopped>>

\* a storage call of createNewRound throws: inside processRoundResult the
\* catch logs it and createNewRound goes on to broadcast; outside, nothing
\* catches it
TickStorageFails(t) ==
    /\ CanFail
    /\ ticks[t].pc \in {"createGameRound", "getRecentRounds", "getBetsByRoundId",
                        "updateBetResult", "getUser", "updateUserBalance"}
    /\ failures' = failures + 1
    /\ ticks' = [ticks EXCEPT ![t] =
            IF ticks[t].pc \in {"createGameRound", "getRecentRounds"}
                THEN endTick(@, "rejected")
                ELSE endTick(@, "resolved")]
    /\ UNCHANGED <<users, rounds, bets, currentSequence, currentRoundId, intervalId,
                   enginePc, started, reqs, betWrites, betCredits, overlap,
                   wsServer, stopped>>

\* ---------------------------------------------------- POST /api/game/bet
\* res.status(...).json(...) sent: the handler is over
respond(req, response) ==
    [req EXCEPT !.pc = "done", !.response = response]

\* a request arrives and await storage.getCurrentRound() returns or throws;
\* without a round 400 'No active round'; insertBetSchema.parse(req.body)
\* throws into the catch (500); else storage.getUser is called
PlaceBetGetCurrentRound(r, body) ==
    /\ reqs[r].pc = "idle"
    /\ r > 1 => reqs[r - 1].pc # "idle"
    /\ RoomForOne
    /\ \E failed \in BOOLEAN :
        /\ failed => CanFail
        /\ failures' = IF failed THEN failures + 1 ELSE failures
        /\ LET currentRound == getCurrentRound
               req == [reqs[r] EXCEPT
                          !.body = body,
                          !.startBalance = IF body.userId \in DOMAIN users
                                             THEN users[body.userId] ELSE 0,
                          !.peers = ReqsInFlight]
           IN  reqs' = [reqs EXCEPT ![r] =
                    IF failed THEN respond(req, "Failed to place bet")
                    ELSE IF noActiveRound(currentRound)
                        THEN respond(req, "No active round")
                    ELSE IF ~insertBetSchemaOk(body) \/ Len(currentRound) = 0
                        \* a ZodError, or the TypeError of currentRound.id
                        THEN respond(req, "Failed to place bet")
                    ELSE [req EXCEPT !.pc = "getUser", !.roundId = currentRound[1].id]]
    /\ UNCHANGED <<users, rounds, bets, currentSequence, currentRoundId, intervalId,
                   enginePc, ticks, started, betWrites, betCredits, overlap,
                   wsServer, stopped>>

\* await storage.getUser(betData.userId) returns; 404 'User not found', 400
\* 'Insufficient balance', or storage.createBet is called
PlaceBetGetUser(r) ==
    /\ reqs[r].pc = "getUser"
    /\ LET user == getUser(reqs[r].body.userId)
       IN  reqs' = [reqs EXCEPT ![r] =
                IF userNotFound(user) THEN respond(@, "User not found")
                ELSE IF Len(user) = 0
                    \* the TypeError of user.balance
                    THEN respond(@, "Failed to place bet")
                ELSE IF insufficientBalance(user[1].balance, reqs[r].body.amount)
                    THEN respond([@ EXCEPT !.balance = user[1].balance],
                                 "Insufficient balance")
                ELSE [@ EXCEPT !.pc = "createBet", !.balance = user[1].balance]]
    /\ UNCHANGED <<users, rounds, bets, currentSequence, currentRoundId, intervalId,
                   enginePc, ticks, started, failures, betWrites, betCredits, overlap,
                   wsServer, stopped>>

\* await storage.createBet(betData) returns; storage.updateUserBalance is
\* called with the balance computed from the one read before
PlaceBetCreateBet(r) ==
    /\ reqs[r].pc = "createBet"
    /\ bets' = Append(bets, newBetRow(Len(bets) + 1, reqs[r].body, reqs[r].roundId))
    /\ betWrites' = Append(betWrites, 0)
    /\ betCredits' = Append(betCredits, 0)
    /\ reqs' = [reqs EXCEPT ![r] = [@ EXCEPT !.pc = "updateUserBalance",
                                             !.betId = Len(bets) + 1]]
    /\ UNCHANGED <<users, rounds, currentSequence, currentRoundId, intervalId,
                   enginePc, ticks, started, failures, overlap,
                   wsServer, stopped>>

\* await storage.updateUserBalance(userId, newBalance) returns; 200 with the bet
PlaceBetUpdateUserBalance(r) ==
    /\ reqs[r].pc = "updateUserBalance"
    /\ users' = [users EXCEPT ![reqs[r].body.userId] =
                    balanceAfterBet(reqs[r].balance, reqs[r].body.amount)]
    /\ reqs' = [reqs EXCEPT ![r] =
                    respond([@ EXCEPT !.wrote = TRUE], "Bet placed successfully")]
    /\ UNCHANGED <<rounds, bets, currentSequence, currentRoundId, intervalId,
                   enginePc, ticks, started, failures, betWrites, betCredits, overlap,
                   wsServer, stopped>>

\* a storage call of the handler throws: the catch answers 500
PlaceBetStorageFails(r) ==
    /\ CanFail
    /\ reqs[r].pc \in {"getUser", "createBet", "updateUserBalance"}
    /\ failures' = failures + 1
    /\ reqs' = [reqs EXCEPT ![r] = respond(@, "Failed to place bet")]
    /\ UNCHANGED <<users, rounds, bets, currentSequence, currentRoundId, intervalId,
                   enginePc, ticks, started, betWrites, betCredits, overlap,
                   wsServer, stopped>>

Next ==
    \/ InitializeSequence
    \/ IntervalFires
    \/ \E t \in 1..MaxTicks :
        \/ CreateGameRound(t)
        \/ CreateGameRoundDuplicate(t)
        \/ GetRecentRounds(t)
        \/ GetBetsByRoundId(t)
        \/ UpdateBetResult(t)
        \/ SettleGetUser(t)
        \/ SettleUpdateUserBalance(t)
        \/ TickStorageFails(t)
    \/ \E r \in 1..MaxRequests :
        \/ \E body \in Bodies : PlaceBetGetCurrentRound(r, body)
        \/ PlaceBetGetUser(r)
        \/ PlaceBetCreateBet(r)
        \/ PlaceBetUpdateUserBalance(r)
        \/ PlaceBetStorageFails(r)

Spec == Init /\ [][Next]_vars

\* ------------------------------------------------------------- settlement
\* the game with the draws 0 and 5, which give all three colours, and with
\* one bet of every kind on them; no storage call of a tick or a placement
\* throws after the seeding read
SettleNumbers == {0, 5}
SettleAmounts == {190, 1000}
SettleBodies ==
    [userId : {1}, betType : {"color"}, betValue : {"red", "green", "violet", "blue"},
     amount : SettleAmounts, amountType : {"string"}]
    \cup [userId : {1}, betType : {"number"}, betValue : {"0", "5", "7", "ten"},
          amount : SettleAmounts, amountType : {"string"}]
    \cup [userId : {1}, betType : {"size"}, betValue : {"big"},
          amount : SettleAmounts, amountType : {"string"}]

NextSettle ==
    \/ InitializeSequenceOn(SettleNumbers)
    \/ IntervalFiresOn(SettleNumbers)
    \/ \E t \in 1..MaxTicks :
        \/ CreateGameRound(t)
        \/ CreateGameRoundDuplicate(t)
        \/ GetRecentRounds(t)
        \/ GetBetsByRoundId(t)
        \/ UpdateBetResult(t)
        \/ SettleGetUser(t)
        \/ SettleUpdateUserBalance(t)
    \/ \E r \in {1} :
        \/ \E body \in SettleBodies : PlaceBetGetCurrentRound(r, body)
        \/ PlaceBetGetUser(r)
        \/ PlaceBetCreateBet(r)
        \/ PlaceBetUpdateUserBalance(r)

SpecSettle == Init /\ [][NextSettle]_vars

\* -------------------------------------------------------------- sequencer
\* the engine alone, started on the game_rounds table that earlier runs of
\* the process left behind
\* the largest value the counter of generatePeriodNumber keeps
SequenceLimit == 999

\* row k of a table is the work of a tick when it carries the label
\* generatePeriodNumber returns for the counter seeded from the row before
\* it (the first one, for the counter the process starts with)
madeByTick(h, k) ==
    LET seq == IF k = 1 THEN DefaultSequence
               ELSE parseInt(sliceLast3(h[k - 1].periodNumber))
    IN  h[k].periodNumber = periodLabel(nextSequence(seq))

\* the table once a run that started on an empty one has used every label
FullHistory ==
    [k \in 1..(SequenceLimit + 1) |->
        newRoundRow(k, periodLabel((DefaultSequence + k) % (SequenceLimit + 1)),
                    generateResult(0, TRUE))]

\* the tables those runs pass through: the beginnings of that table all of
\* whose rows are the work of ticks
Histories ==
    LET made == {k \in 1..Len(FullHistory) : madeByTick(FullHistory, k)}
    IN  {SubSeq(FullHistory, 1, n) :
            n \in {m \in 0..Len(FullHistory) : \A k \in 1..m : k \in made}}

InitSequencer ==
    /\ users = [u \in Users |-> DefaultBalance]
    /\ rounds \in Histories
    /\ bets = <<>>
    /\ currentSequence = DefaultSequence
    /\ currentRoundId = 0
    /\ intervalId = FALSE
    /\ enginePc = "initializeSequence"
    /\ ticks = [t \in 1..MaxTicks |-> IdleTick]
    /\ started = 0
    /\ reqs = [r \in 1..MaxRequests |-> IdleReq]
    /\ failures = 0
    /\ betWrites = <<>>
    /\ betCredits = <<>>
    /\ overlap = FALSE
    /\ wsServer = NoServer
    /\ stopped = FALSE

\* the draw of the rounds of this game: 1 is green whatever the coin
SequencerNumbers == {1}

NextSequencer ==
    \/ InitializeSequenceOn(SequencerNumbers)
    \/ IntervalFiresOn(SequencerNumbers)
    \/ \E t \in 1..MaxTicks :
        \/ CreateGameRound(t)
        \/ CreateGameRoundDuplicate(t)
        \/ GetRecentRounds(t)
        \/ GetBetsByRoundId(t)

SpecSequencer == InitSequencer /\ [][NextSequencer]_vars

\* -------------------------------------------------------------- observers
\* the engine with a WebSocket server attached at some moment
MaxClients == 2

\* a client: open (readyState 1) or closed (3), and what its send does
Clients == [readyState : {1, 3}, sendThrows : BOOLEAN]

Servers ==
    UNION {[1..n -> Clients] : n \in 0..MaxClients}

\* setWebSocketServer(wsServer)
SetWebSocketServer(clients) ==
    /\ ~wsServer.set
    /\ wsServer' = [set |-> TRUE, clients |-> clients]
    /\ UNCHANGED <<users, rounds, bets, currentSequence, currentRoundId, intervalId,
                   enginePc, ticks, started, reqs, failures, betWrites, betCredits,
                   overlap, stopped>>

NextBroadcast ==
    \/ InitializeSequence
    \/ IntervalFires
    \/ \E clients \in Servers : SetWebSocketServer(clients)
    \/ \E t \in 1..MaxTicks :
        \/ CreateGameRound(t)
        \/ CreateGameRoundDuplicate(t)
        \/ GetRecentRounds(t)
        \/ GetBetsByRoundId(t)

SpecBroadcast == Init /\ [][NextBroadcast]_vars

\* --------------------------------------------------------------- shutdown
\* the engine alone, with stopGameLoop called at some moment
\* stopGameLoop(): clearInterval when the interval is set
StopGameLoop ==
    /\ ~stopped
    /\ stopped' = TRUE
    /\ intervalId' = FALSE
    /\ UNCHANGED <<users, rounds, bets, currentSequence, currentRoundId, enginePc,
                   ticks, started, reqs, failures, betWrites, betCredits, overlap,
                   wsServer>>

NextStop ==
    \/ InitializeSequence
    \/ IntervalFires
    \/ StopGameLoop
    \/ \E t \in 1..MaxTicks :
        \/ CreateGameRound(t)
        \/ CreateGameRoundDuplicate(t)
        \/ GetRecentRounds(t)
        \/ GetBetsByRoundId(t)

SpecStop == Init /\ [][NextStop]_vars

\* ----------------------------------------------------------------- draws
\* the engine alone, with every number Math.floor(Math.random() * 10) gives
AllNumbers == 0..9

NextDraws ==
    \/ InitializeSequenceOn(AllNumbers)
    \/ IntervalFiresOn(AllNumbers)
    \/ \E t \in 1..MaxTicks :
        \/ CreateGameRound(t)
        \/ CreateGameRoundDuplicate(t)
        \/ GetRecentRounds(t)
        \/ GetBetsByRoundId(t)

SpecDraws == Init /\ [][NextDraws]_vars

\* ------------------------------------------------- generatePeriodNumber
\* the sequencer called over and over from the counter the engine is
\* constructed with; started counts the calls
MaxCalls == 134

GeneratePeriodNumber ==
    /\ started < MaxCalls
    /\ started' = started + 1
    /\ currentSequence' = nextSequence(currentSequence)
    /\ UNCHANGED <<users, rounds, bets, currentRoundId, intervalId, enginePc, ticks,
                   reqs, failures, betWrites, betCredits, overlap,
                   wsServer, stopped>>

NextCalls ==
    GeneratePeriodNumber

SpecCalls == Init /\ [][NextCalls]_vars

\* ================================================================== claims
Done(r) == reqs[r].pc = "done"
Placed(r) == reqs[r].response = "Bet placed successfully"
Rejected(r, why) == reqs[r].response = why
ReqIds == 1..MaxRequests
TickIds == 1..MaxTicks
BetIds == 1..Len(bets)

\* C1: two placements by the same user that are in flight together, each
\* amount within the balance and the two together above it, end with exactly
\* one placed and the other answered 'Insufficient balance' (no storage call
\* threw, no payout was credited meanwhile).
C1_ExactlyOneSucceeds ==
    \A r1 \in ReqIds, r2 \in ReqIds :
        ( /\ r1 \in reqs[r2].peers
          /\ Done(r1) /\ Done(r2)
          /\ failures = 0
          /\ \A b \in BetIds : betCredits[b] = 0
          /\ reqs[r1].body.userId = reqs[r2].body.userId
          /\ reqs[r1].body.userId \in Users
          /\ reqs[r2].body.amountType = "string"
          /\ reqs[r1].body.amount > 0 /\ reqs[r2].body.amount > 0
          /\ reqs[r1].body.amount <= reqs[r2].startBalance
          /\ reqs[r2].body.amount <= reqs[r2].startBalance
          /\ reqs[r1].body.amount + reqs[r2].body.amount > reqs[r2].startBalance )
        => \/ Placed(r1) /\ Rejected(r2, "Insufficient balance")
           \/ Placed(r2) /\ Rejected(r1, "Insufficient balance")

\* C2: every user's persisted balance is at least zero, in every reachable
\* state.
C2_BalanceNonNegative ==
    \A u \in Users : users[u] >= 0

\* C3: settlement writes the status and payout of a bet (of a positive
\* amount) at most once and credits its owner for it at most once.
C3_SettledAtMostOnce ==
    \A b \in BetIds :
        bets[b].amount > 0 => (betWrites[b] <= 1 /\ betCredits[b] <= 1)

\* C4: at most one createNewRound execution is in flight at any time.
C4_TicksSerialized ==
    Cardinality(InFlight) <= 1

\* C5: a tick that settles, settles the round created immediately before the
\* round it created, with the colour and number stored on that round; it
\* never settles its own round, and the tick that creates the first round
\* settles nothing.
C5_OneRoundLag ==
    \A t \in TickIds :
        /\ ticks[t].prevId # 0 =>
            /\ ticks[t].prevId = ticks[t].roundId - 1
            /\ ticks[t].prevResult.color = rounds[ticks[t].prevId].result
            /\ ticks[t].prevResult.number = rounds[ticks[t].prevId].number
        /\ ticks[t].roundId = 1 => ticks[t].prevId = 0

\* C6: when no storage call threw and ticks never overlapped, a bet (of a
\* positive amount) is no
\* longer 'pending' once the tick that created the round after its target
\* round has finished.
C6_SettledByNextTick ==
    \A b \in BetIds, t \in TickIds :
        ( /\ failures = 0
          /\ ~overlap
          /\ ticks[t].pc = "done"
          /\ ticks[t].roundId = bets[b].roundId + 1
          /\ bets[b].amount > 0 )
        => bets[b].status # "pending"

C7_Step ==
    \A r \in ReqIds :
        /\ (reqs[r].pc = "idle" /\ reqs'[r].pc = "getUser") =>
            reqs'[r].roundId = rounds[Len(rounds)].id
        /\ (reqs[r].pc = "createBet" /\ reqs'[r].pc = "updateUserBalance") =>
            /\ bets' = Append(bets,
                    [id |-> Len(bets) + 1, userId |-> reqs[r].body.userId,
                     roundId |-> reqs[r].roundId, betType |-> reqs[r].body.betType,
                     betValue |-> reqs[r].body.betValue, amount |-> reqs[r].body.amount,
                     payout |-> 0, status |-> "pending"])
            /\ users' = users /\ rounds' = rounds
        /\ (reqs[r].pc = "updateUserBalance" /\ Placed(r)') =>
            /\ reqs[r].balance >= reqs[r].body.amount
            /\ users' = [users EXCEPT ![reqs[r].body.userId] =
                            reqs[r].balance - reqs[r].body.amount]
            /\ bets' = bets /\ rounds' = rounds
        /\ (reqs'[r] # reqs[r] /\ reqs[r].pc \in {"idle", "getUser"}) =>
            (users' = users /\ bets' = bets /\ rounds' = rounds)

C7_State ==
    \A r \in ReqIds :
        Placed(r) =>
            /\ reqs[r].betId \in BetIds
            /\ bets[reqs[r].betId].roundId = reqs[r].roundId
            /\ bets[reqs[r].betId].userId = reqs[r].body.userId
            /\ bets[reqs[r].betId].amount = reqs[r].body.amount
            /\ ( /\ \A q \in ReqIds \ {r} : reqs[q].pc = "idle"
                 /\ \A b \in BetIds : betWrites[b] = 0 )
               => /\ users[reqs[r].body.userId] = DefaultBalance - reqs[r].body.amount
                  /\ Len(bets) = 1
                  /\ bets[1].status = "pending" /\ bets[1].payout = 0

C7_Placement == []C7_State /\ [][C7_Step]_vars

C7_Witness ==
    /\ Placed(1)
    /\ reqs[1].body.amount = 3000
    /\ reqs[2].pc = "idle"
    /\ users[1] = 2000
    /\ Len(bets) = 1 /\ bets[1].status = "pending"

\* C8: a placement whose amount is above the balance it read is answered
\* 'Insufficient balance' (and only such a placement is); it creates no bet
\* and writes no balance, and the step that answers leaves users and bets
\* as they were.
C8_State ==
    \A r \in ReqIds :
        /\ Rejected(r, "Insufficient balance") =>
            /\ reqs[r].body.amount > reqs[r].balance
            /\ reqs[r].betId = 0 /\ ~reqs[r].wrote
        /\ (reqs[r].pc \in {"createBet", "updateUserBalance"} \/ Placed(r)) =>
            reqs[r].body.amount <= reqs[r].balance

C8_Step ==
    \A r \in ReqIds :
        ( /\ reqs[r].pc = "getUser" /\ reqs'[r] # reqs[r]
          /\ failures' = failures
          /\ reqs[r].body.userId \in Users
          /\ reqs[r].body.amount > users[reqs[r].body.userId] )
        => /\ Rejected(r, "Insufficient balance")'
           /\ users' = users /\ bets' = bets

C8_InsufficientBalance == []C8_State /\ [][C8_Step]_vars

C8_Witness ==
    \E r \in ReqIds :
        /\ Rejected(r, "Insufficient balance")
        /\ reqs[r].body.amount = 3000 /\ reqs[r].balance = 2000
        /\ users[1] = 2000 /\ Len(bets) = 1

\* C10: a placement that finds no round is answered 'No active round', and
\* one that finds a round, parses and names a user without a row is answered
\* 'User not found' (when the storage call does not throw); either way the
\* request creates no bet and changes no balance.
C10_State ==
    \A r \in ReqIds :
        /\ (Rejected(r, "No active round") \/ Rejected(r, "User not found")) =>
            (reqs[r].betId = 0 /\ ~reqs[r].wrote)
        /\ Rejected(r, "No active round") => reqs[r].roundId = 0
        /\ Rejected(r, "User not found") => reqs[r].body.userId \notin Users

C10_Step ==
    \A r \in ReqIds :
        /\ ( /\ reqs[r].pc = "idle" /\ reqs'[r].pc # "idle"
             /\ failures' = failures
             /\ Len(rounds) = 0 )
           => /\ Rejected(r, "No active round")'
              /\ users' = users /\ bets' = bets
        /\ ( /\ reqs[r].pc = "getUser" /\ reqs'[r] # reqs[r]
             /\ failures' = failures
             /\ reqs[r].body.userId \notin Users )
           => /\ Rejected(r, "User not found")'
              /\ users' = users /\ bets' = bets

C10_NoRoundNoUser == []C10_State /\ [][C10_Step]_vars

C10_Witness ==
    /\ Rejected(1, "No active round")
    /\ Rejected(2, "User not found")
    /\ bets = <<>>
    /\ \A u \in Users : users[u] = DefaultBalance

\* C11: a placement whose kind is neither 'color' nor 'number', or whose
\* value is not a colour name / a digit for its kind, ends rejected: it has
\* created no bet and has written no balance.
C11_InvalidBetRejected ==
    \A r \in ReqIds :
        LET body == reqs[r].body
            valid == \/ /\ body.betType = "color"
                        /\ body.betValue \in {"red", "green", "violet"}
                     \/ /\ body.betType = "number"
                        /\ body.betValue \in {Digits[k] : k \in 1..10}
        IN  (Done(r) /\ ~valid) =>
                (~Placed(r) /\ reqs[r].betId = 0 /\ ~reqs[r].wrote)

\* C12: a bet is recorded only against the round that is the latest one at
\* the moment it is recorded: never against a round after which a newer
\* round has been created.
C12_OnlyOpenRound ==
    [][Len(bets') > Len(bets) =>
        bets'[Len(bets')].roundId = rounds[Len(rounds)].id]_vars

\* C13: every settled color bet is 'won' exactly when its value is the
\* colour stored on its round, and a winning one is paid (to the cent) 4.5
\* times its amount when that colour is violet, 1.95 times otherwise.
C13_ColorSettlement ==
    \A b \in BetIds :
        (bets[b].betType = "color" /\ bets[b].status # "pending") =>
            LET color == rounds[bets[b].roundId].result
                due == bets[b].amount * (IF color = "violet" THEN 450 ELSE 195)
            IN  /\ bets[b].status \in {"won", "lost"}
                /\ bets[b].status = "won" <=> bets[b].betValue = color
                /\ bets[b].status = "won" =>
                    (bets[b].payout * 100 - due) \in -50..50

C13_Witness ==
    \E b \in BetIds :
        /\ bets[b].betType = "color" /\ bets[b].betValue = "violet"
        /\ rounds[bets[b].roundId].result = "violet"
        /\ bets[b].status = "won"
        /\ bets[b].amount = 190 /\ bets[b].payout = 855

\* C14: every settled number bet is 'won' with payout 9 times its amount
\* when the integer its value parses to is the number stored on its round,
\* and 'lost' with payout 0.00 otherwise.
C14_NumberSettlement ==
    \A b \in BetIds :
        (bets[b].betType = "number" /\ bets[b].status # "pending") =>
            LET number == rounds[bets[b].roundId].number
                hit == \E d \in 0..9 : bets[b].betValue = Digits[d + 1] /\ d = number
            IN  IF hit
                    THEN bets[b].status = "won" /\ bets[b].payout = 9 * bets[b].amount
                    ELSE bets[b].status = "lost" /\ bets[b].payout = 0

C14_Witness ==
    \E b \in BetIds :
        /\ bets[b].betType = "number" /\ bets[b].betValue = "5"
        /\ rounds[bets[b].roundId].number = 5
        /\ bets[b].status = "won"
        /\ bets[b].amount = 190 /\ bets[b].payout = 1710

\* C15: a winning bet's persisted payout is its amount times its multiplier
\* to the cent, and the settlement step that credits its owner raises the
\* balance it read by exactly the persisted payout.
C15_State ==
    \A b \in BetIds :
        bets[b].status = "won" =>
            LET result == [color |-> rounds[bets[b].roundId].result,
                           number |-> rounds[bets[b].roundId].number]
            IN  (bets[b].payout * 100
                    - bets[b].amount * betMultiplier(bets[b], result)) \in -50..50

C15_Step ==
    \A t \in TickIds :
        (ticks[t].pc = "updateUserBalance" /\ ticks'[t].pc # "updateUserBalance") =>
            LET bet == ticks[t].bets[ticks[t].i]
            IN  users'[bet.userId] = ticks[t].balance + bets[bet.id].payout

C15_PayoutCredited == []C15_State /\ [][C15_Step]_vars

\* C16: the settlement step of a losing bet sets its status to 'lost' and
\* its payout to 0.00 and changes no balance; a lost bet is never credited,
\* and after one placement alone the balance stays at 50.00 - A.
C16_Step ==
    \A t \in TickIds :
        (ticks[t].pc = "updateBetResult" /\ ticks'[t].pc # "updateBetResult") =>
            LET bet == ticks[t].bets[ticks[t].i]
                result == [color |-> rounds[bet.roundId].result,
                           number |-> rounds[bet.roundId].number]
                lost == IF bet.betType = "color" THEN bet.betValue # result.color
                        ELSE IF bet.betType = "number"
                            THEN ~(\E d \in 0..9 : bet.betValue = Digits[d + 1]
                                                    /\ d = result.number)
                        ELSE TRUE
            IN  lost =>
                    /\ bets'[bet.id].status = "lost"
                    /\ bets'[bet.id].payout = 0
                    /\ users' = users
                    /\ ticks'[t].pc \notin {"getUser", "updateUserBalance"}

C16_State ==
    \A b \in BetIds :
        bets[b].status = "lost" =>
            /\ bets[b].payout = 0
            /\ betCredits[b] = 0
            /\ (Len(bets) = 1 /\ Placed(1) /\ reqs[2].pc = "idle") =>
                    users[bets[b].userId] = DefaultBalance - bets[b].amount

C16_LosingBet == []C16_State /\ [][C16_Step]_vars

C16_Witness ==
    /\ Len(bets) = 1 /\ Placed(1)
    /\ bets[1].betType = "color" /\ bets[1].betValue = "red"
    /\ rounds[bets[1].roundId].result = "violet"
    /\ bets[1].status = "lost" /\ bets[1].payout = 0
    /\ bets[1].amount = 1000 /\ users[1] = 4000

\* C17: no execution of createNewRound ends with an exception leaving it:
\* whatever storage call of a tick throws, the tick's promise resolves.
C17_FailureCaught ==
    \A t \in TickIds : ticks[t].outcome # "rejected"

\* C18: while no storage call throws, every tick that has finished has
\* created a round, however many rounds earlier ticks have created.
C18_EveryTickCreatesRound ==
    \A t \in TickIds :
        (failures = 0 /\ ticks[t].pc = "done") => ticks[t].roundId # 0

\* C19: the label generatePeriodNumber issues to a tick is carried by no
\* persisted round, and a round that is persisted carries a label greater
\* than the label of every round persisted before it.
C19_Issued ==
    \A t \in TickIds :
        ticks[t].pc = "createGameRound" =>
            \A k \in 1..Len(rounds) : rounds[k].periodNumber # ticks[t].periodNumber

C19_Step ==
    Len(rounds') > Len(rounds) =>
        \A k \in 1..Len(rounds) :
            parseInt(sliceLast3(rounds[k].periodNumber))
                < parseInt(sliceLast3(rounds'[Len(rounds')].periodNumber))

C19_LabelsUniqueIncreasing == []C19_Issued /\ [][C19_Step]_vars

\* C20: each call of generatePeriodNumber takes the counter c to c + 1 when
\* c < 999 and to 0 when c = 999, and returns '127927270' followed by the
\* new counter as 3 digits; the counter is always within 0..999.
C20_State ==
    currentSequence \in 0..999

C20_Step ==
    started' = started + 1 =>
        LET latest == rounds[Len(rounds)].periodNumber
            c == IF enginePc = "running" \/ failures' # failures \/ Len(rounds) = 0
                    THEN currentSequence
                    ELSE CHOOSE n \in 0..999 :
                            <<Digits[(n \div 100) + 1], Digits[((n \div 10) % 10) + 1],
                              Digits[(n % 10) + 1]>> = SubSeq(latest, 10, 12)
            n == currentSequence'
        IN  /\ n = (IF c < 999 THEN c + 1 ELSE 0)
            /\ ticks'[started'].periodNumber =
                    <<"1", "2", "7", "9", "2", "7", "2", "7", "0",
                      Digits[(n \div 100) + 1], Digits[((n \div 10) % 10) + 1],
                      Digits[(n % 10) + 1]>>

C20_GeneratePeriodNumber == []C20_State /\ [][C20_Step]_vars

C20_Witness ==
    /\ currentSequence = 0
    /\ started = 1
    /\ Len(rounds) > 0
    /\ SubSeq(rounds[Len(rounds)].periodNumber, 10, 12) = <<"9", "9", "9">>
    /\ ticks[1].periodNumber =
            <<"1", "2", "7", "9", "2", "7", "2", "7", "0", "0", "0", "0">>

\* C21, as stated: from the seed 867 the 133rd call of the sequencer returns
\* suffix 999 and the 134th returns suffix 000.
C21_WrapAt134 ==
    /\ started = 133 => sliceLast3(periodLabel(currentSequence)) = <<"9", "9", "9">>
    /\ started = 134 => sliceLast3(periodLabel(currentSequence)) = <<"0", "0", "0">>

\* C21, amended: from the seed 867 the 132nd call of the sequencer returns
\* suffix 999 and the 133rd returns suffix 000.
C21_WrapAt133 ==
    /\ started = 132 =>
        /\ currentSequence = 999
        /\ sliceLast3(periodLabel(currentSequence)) = <<"9", "9", "9">>
    /\ started = 133 =>
        /\ currentSequence = 0
        /\ sliceLast3(periodLabel(currentSequence)) = <<"0", "0", "0">>

C21_Witness ==
    /\ started = 133
    /\ periodLabel(currentSequence) =
            <<"1", "2", "7", "9", "2", "7", "2", "7", "0", "0", "0", "0">>

\* C22: every persisted round has a number in 0..9 and the colour the fixed
\* mapping allows for it: green for 1, 3, 7, 9; red for 2, 4, 6, 8; red or
\* violet for 0; green or violet for 5; so a violet round has number 0 or 5.
C22_ResultMapping ==
    \A k \in 1..Len(rounds) :
        LET number == rounds[k].number
            color == rounds[k].result
        IN  /\ number \in 0..9
            /\ number \in {1, 3, 7, 9} => color = "green"
            /\ number \in {2, 4, 6, 8} => color = "red"
            /\ number = 0 => color \in {"red", "violet"}
            /\ number = 5 => color \in {"green", "violet"}
            /\ color = "violet" => number \in {0, 5}

C22_Witness ==
    /\ \E k \in 1..Len(rounds) : rounds[k].number = 5 /\ rounds[k].result = "green"
    /\ \E k \in 1..Len(rounds) : rounds[k].number = 0 /\ rounds[k].result = "violet"

C24_RoundQueries ==
    /\ Len(rounds) = 0 => getCurrentRound = <<>>
    /\ Len(rounds) > 0 =>
        /\ Len(getCurrentRound) = 1
        /\ \A k \in 1..Len(rounds) : rounds[k].id <= getCurrentRound[1].id
    /\ \A n \in {1, 2, 20} :
        LET recent == getRecentRounds(n)
        IN  /\ Len(recent) <= n
            /\ Len(recent) < n => Len(recent) = Len(rounds)
            /\ \A i \in 1..Len(recent) :
                /\ \E k \in 1..Len(rounds) : rounds[k] = recent[i]
                /\ \A j \in 1..Len(recent) : i < j => recent[i].id > recent[j].id
                /\ \A k \in 1..Len(rounds) :
                    rounds[k].id > recent[i].id =>
                        \E j \in 1..Len(recent) : recent[j] = rounds[k]
            /\ Len(recent) > 0 => <<recent[1]>> = getCurrentRound

C24_Witness ==
    /\ Len(rounds) = 3
    /\ Len(getRecentRounds(2)) = 2
    /\ getRecentRounds(2)[1].id = 3 /\ getRecentRounds(2)[2].id = 2
    /\ getCurrentRound[1].id = 3

\* C25: once stopGameLoop has been called, no execution of createNewRound
\* starts any more, so the engine creates no further round.
C25_StopHalts ==
    [][stopped => started' = started]_vars

\* C26: no tick starts before the seeding of initializeSequence is over, and
\* the first label issued after a start has suffix (last persisted suffix
\* + 1) mod 1000 when a persisted round exists and 868 when none does.
C26_State ==
    enginePc = "initializeSequence" => started = 0

C26_Step ==
    (enginePc = "initializeSequence" /\ enginePc' = "running") =>
        LET issued == parseInt(sliceLast3(ticks'[1].periodNumber))
            last == parseInt(sliceLast3(rounds[Len(rounds)].periodNumber))
        IN  /\ started' = 1
            /\ issued = IF Len(rounds) > 0 THEN (last + 1) % 1000 ELSE 868

C26_StartupOrdering == []C26_State /\ [][C26_Step]_vars

\* C27: every persisted bet has an amount above zero, and no placement has
\* left its user with more than the balance it read (unless a credit or
\* another placement has written the balance too).
C27_PositiveAmount ==
    /\ \A b \in BetIds : bets[b].amount > 0
    /\ \A r \in ReqIds :
        reqs[r].wrote => users[reqs[r].body.userId] <= reqs[r].balance
            \/ \E b \in BetIds : betCredits[b] > 0
            \/ \E q \in ReqIds \ {r} : reqs[q].wrote

\* C28: two settled bets that agree in kind, value and amount and whose
\* rounds agree in colour and number carry the same status and payout,
\* whatever other bets there are, in whatever order they were processed and
\* whatever the balances are.
C28_SettlementDeterministic ==
    \A b1 \in BetIds, b2 \in BetIds :
        ( /\ bets[b1].status # "pending" /\ bets[b2].status # "pending"
          /\ bets[b1].betType = bets[b2].betType
          /\ bets[b1].betValue = bets[b2].betValue
          /\ bets[b1].amount = bets[b2].amount
          /\ rounds[bets[b1].roundId].result = rounds[bets[b2].roundId].result
          /\ rounds[bets[b1].roundId].number = rounds[bets[b2].roundId].number )
        => /\ bets[b1].status = bets[b2].status
           /\ bets[b1].payout = bets[b2].payout

C28_Witness ==
    /\ Len(bets) = 2
    /\ bets[1].roundId # bets[2].roundId
    /\ bets[1].amount = 3000 /\ bets[2].amount = 3000
    /\ bets[1].status = "won" /\ bets[2].status = "won"
    /\ bets[1].payout = 5850 /\ bets[2].payout = 5850
    /\ users[1] # DefaultBalance

\* C29: when no placement and no tick is in flight (no storage call threw,
\* ticks never overlapped, no two placements were in flight together, all
\* amounts positive), each user's balance is the
\* initial balance minus the amounts of the user's bets plus the payouts of
\* the user's won bets.
RECURSIVE C29_Net(_, _)
C29_Net(u, n) ==
    IF n = 0 THEN 0
    ELSE C29_Net(u, n - 1)
         + (IF bets[n].userId # u THEN 0
            ELSE (IF bets[n].status = "won" THEN bets[n].payout ELSE 0)
                 - bets[n].amount)

C29_BalanceConservation ==
    ( /\ InFlight = {} /\ ReqsInFlight = {}
      /\ failures = 0 /\ ~overlap
      /\ \A r \in ReqIds : reqs[r].peers = {}
      /\ \A b \in BetIds : bets[b].amount > 0 )
    => \A u \in Users : users[u] = DefaultBalance + C29_Net(u, Len(bets))

\* C30: when no tick is in flight (ticks never overlapped, all amounts
\* positive), every bet with status 'won' has been credited to its owner
\* exactly once, also when a storage call of the settlement threw.
C30_WonIsCredited ==
    ( /\ InFlight = {}
      /\ ~overlap
      /\ \A b \in BetIds : bets[b].amount > 0 )
    => \A b \in BetIds : bets[b].status = "won" => betCredits[b] = 1

\* C31: when no storage call threw, a bet (of a positive amount) is never
\* created for a round whose bet list the settling tick has already fetched:
\* at the moment a bet row is created, no tick that settles the bet's round
\* is past getBetsByRoundId.
C31_NoBetAfterSettlementStarted ==
    [][(Len(bets') > Len(bets) /\ failures = 0 /\ bets'[Len(bets')].amount > 0) =>
        ~\E t \in TickIds :
            /\ ticks[t].prevId = bets'[Len(bets')].roundId
            /\ ticks[t].pc \in {"updateBetResult", "getUser", "updateUserBalance",
                                "done"}]_vars

\* C32: a step of a tick that is settling round N (the tick is between
\* getBetsByRoundId and the end of processRoundResult) adds or removes no
\* bet, changes only the status and payout of bets whose roundId is N,
\* changes the balance only of a user owning a 'won' bet on N, and leaves
\* the round records, the requests and every other bet unchanged.
C32_Step ==
    \A t \in TickIds :
        ( /\ ticks[t].pc \in {"getBetsByRoundId", "updateBetResult", "getUser",
                              "updateUserBalance"}
          /\ ticks'[t] # ticks[t] )
        => /\ rounds' = rounds
           /\ Len(bets') = Len(bets)
           /\ \A b \in BetIds :
                /\ bets'[b] = [bets[b] EXCEPT !.status = bets'[b].status,
                                              !.payout = bets'[b].payout]
                /\ bets'[b] # bets[b] => bets[b].roundId = ticks[t].prevId
           /\ \A u \in DOMAIN users :
                users'[u] # users[u] =>
                    \E b \in BetIds : /\ bets[b].userId = u
                                      /\ bets[b].roundId = ticks[t].prevId
                                      /\ bets[b].status = "won"

C32_SettlementFrame == [][C32_Step]_vars

\* a tick has settled and credited a bet of round N while a bet on the round
\* it created is pending
C32_Witness ==
    \E t \in TickIds, b \in BetIds, c \in BetIds :
        /\ ticks[t].pc = "done"
        /\ ticks[t].prevId # 0
        /\ bets[b].roundId = ticks[t].prevId
        /\ bets[b].status = "won"
        /\ betCredits[b] = 1
        /\ bets[c].roundId = ticks[t].roundId
        /\ bets[c].status = "pending"

====
